---- MODULE Spec2Model ----
(***************************************************************************)
(* hive-mind: the shared conversational context store (RedisContext) and   *)
(* the extension runtime (PluginLoader), as state machines.                *)
(*                                                                         *)
(* SpecCtx    : the context store, its Redis key, two tasks calling it     *)
(* SpecSeq    : the context store called by one task with every argument   *)
(* SpecFail   : the context store with the server going down and up        *)
(* SpecRender : the context store with any role, rendered for the LLM      *)
(* SpecAppend : the context store with two tasks appending and reading     *)
(* SpecReg    : the plugin registry, the plugins directory and one caller  *)
(* SpecPar    : the plugin registry called by two tasks side by side       *)
(* SpecIso    : the plugin registry with two tasks and a plugin that hangs *)
(***************************************************************************)
EXTENDS Integers, Sequences, FiniteSets, TLC

VARIABLES
    now,              \* datetime.utcnow(), in ticks
    reachable,        \* the Redis server answers
    redis_conn,       \* RedisContext._redis: "None" or "client"
    messages_list,    \* the Redis list at RedisContext._messages_key
    key_ttl,          \* expiry deadline of that key, NoTTL when it has none
    cpc,              \* per task: where it is suspended inside a store call
    cloc,             \* per task: the locals of the call in progress
    cres,             \* the most recently finished store call
    nextId,           \* next message content (contents are distinct)
    lastAppendDone,   \* time the last add_message returned normally, -1 if none
    appendDirty,      \* an add_message started or failed since lastAppendDone
    appended,         \* contents in the order their add_message rpush was served
    fs,               \* the plugins directory: what each entry holds
    loaded_plugins,   \* PluginLoader.loaded_plugins, a dict in insertion order
    plugin_manifests, \* PluginLoader.plugin_manifests, a dict in insertion order
    rpc,              \* per task: where it is suspended inside a loader call
    rloc,             \* per task: the locals of the call in progress
    rres,             \* the loader call that has just finished
    nextInst          \* identity of the next plugin instance created

ctxvars == <<now, reachable, redis_conn, messages_list, key_ttl, cpc, cloc, cres,
             nextId, lastAppendDone, appendDirty, appended>>

regvars == <<fs, loaded_plugins, plugin_manifests, rpc, rloc, rres, nextInst>>

vars == <<ctxvars, regvars>>

----------------------------------------------------------------------------
(* Bounds *)

MaxTime == 3
MaxMsgs == 2
MaxSeqMsgs == 3
ttl_seconds == 2

MaxInst == 3

CtxTasks == {"c1", "c2"}
RegTasks == {"r1", "r2"}
Roles == {"user", "assistant", "system"}
\* add_message(role: str, ...): the roles a caller may pass
AnyRoles == Roles \cup {"tool"}
NoTTL == -1
NoLimit == -1
NoSince == -1
Limits == {NoLimit} \cup (0 .. MaxSeqMsgs)
Sinces == {NoSince} \cup (0 .. MaxTime)

----------------------------------------------------------------------------
(* Message and its JSON form *)

Message(role, content, timestamp, client_id, metadata) ==
    [role |-> role, content |-> content, timestamp |-> timestamp,
     client_id |-> client_id, metadata |-> metadata]

\* Message.to_dict: metadata None is written as {}
to_dict(m) ==
    [role |-> m.role, content |-> m.content, timestamp |-> m.timestamp,
     client_id |-> m.client_id,
     metadata |-> IF m.metadata = "None" THEN "{}" ELSE m.metadata]

\* Message.from_dict
from_dict(d) ==
    Message(d.role, d.content, d.timestamp, d.client_id, d.metadata)

Contents(s) == {s[i].content : i \in 1 .. Len(s)}

----------------------------------------------------------------------------
(* RedisContext: pure parts *)

\* _get_redis: the set of <<self._redis afterwards, fault raised>>.  With no
\* client yet and the server down, either from_url raises (self._redis stays
\* None) or ping raises after self._redis has been assigned.
get_redis(conn, up) ==
    IF conn # "None" THEN {<<conn, "none">>}
    ELSE IF up THEN {<<"client", "none">>}
    ELSE {<<"None", "RedisError">>, <<"client", "RedisError">>}

\* the since test with `<=`: a message stamped exactly `since` is dropped
since_skips_strict(since, m) == since # NoSince /\ m.timestamp <= since

\* get_messages, the since test: `if since and message.timestamp < since`
since_skips(since, m) == since # NoSince /\ m.timestamp < since

\* get_messages, the limit: `if limit and limit > 0: messages[-limit:]`
apply_limit(msgs, limit) ==
    IF (limit # NoLimit /\ limit # 0) /\ limit > 0
    THEN IF limit >= Len(msgs) THEN msgs
         ELSE SubSeq(msgs, Len(msgs) - limit + 1, Len(msgs))
    ELSE msgs

\* get_messages on the list LRANGE returned
get_messages(list, limit, since) ==
    LET parsed == [i \in 1 .. Len(list) |-> from_dict(list[i])]
        kept   == SelectSeq(parsed, LAMBDA m : ~ since_skips(since, m))
    IN  apply_limit(kept, limit)

\* prune_old_messages keeping only the messages stamped after `before`
messages_to_keep_after(msgs, before) ==
    SelectSeq(msgs, LAMBDA m : m.timestamp > before)

\* prune_old_messages: messages_to_keep
messages_to_keep(msgs, before) ==
    SelectSeq(msgs, LAMBDA m : m.timestamp >= before)

\* expire that sets a deadline only on a key that has none
expire_deadline_once(old, t) == IF old # NoTTL THEN old ELSE t + ttl_seconds

\* add_message / prune_old_messages: r.expire(key, ttl) on an existing key
expire_deadline(old, t) == t + ttl_seconds

\* format_for_llm: one turn per line of the script
role_turn(m) ==
    IF m.role = "user" THEN <<<<"<|user|>", m.content>>>>
    ELSE IF m.role = "assistant" THEN <<<<"<|assistant|>", m.content>>>>
    ELSE IF m.role = "system" THEN <<<<"<|system|>", m.content>>>>
    ELSE <<>>

RECURSIVE role_turns(_)
role_turns(msgs) ==
    IF msgs = <<>> THEN <<>> ELSE role_turn(Head(msgs)) \o role_turns(Tail(msgs))

format_script(msgs, system_prompt) ==
    (IF system_prompt # "" THEN <<<<"<|system|>", system_prompt>>>> ELSE <<>>)
    \o role_turns(msgs) \o <<<<"<|assistant|>", "open">>>>

----------------------------------------------------------------------------
(* RedisContext: state *)

NoMsg == Message("none", 0, 0, "none", "None")

\* a fault's context when none was passed
NoContext == [k \in {} |-> "none"]

\* what the redis client raises when the server does not answer
ConnectionFault == "ConnectionError"

\* RedisError(message, operation, context): {"operation": operation, **context}
RedisErrorContext(operation, context) == context @@ [operation |-> operation]

\* the context each operation gives the ContextError it raises for a caught e
ContextErrorContext(op, e) ==
    CASE op = "add" -> [role |-> "role", content_length |-> "len(content)",
                        error_type |-> e]
      [] op = "read" -> [limit |-> "limit", error_type |-> e]
      [] op = "render" -> [limit |-> "limit", error_type |-> e]
      [] op = "prune" -> [before |-> "before.isoformat()", error_type |-> e]
      [] OTHER -> [error_type |-> e]

\* the context of the fault a store call ends with
fault_context(op, outcome) ==
    IF outcome = "RedisError"
    THEN RedisErrorContext("connect", [redis_url |-> "self._redis_url"])
    ELSE IF outcome = "ContextError"
    THEN ContextErrorContext(op, ConnectionFault)
    ELSE NoContext

NoLoc == [msg |-> NoMsg, messages |-> <<>>, keep |-> <<>>, before |-> 0,
          gone |-> {}, size0 |-> 0]

NoRes == [task |-> "none", op |-> "none", outcome |-> "ok", value |-> <<>>, count |-> 0,
          limit |-> NoLimit, since |-> NoSince, before |-> 0,
          log |-> <<>>, down |-> FALSE, idle |-> FALSE, gone |-> {},
          msg |-> NoMsg, size0 |-> 0, system_prompt |-> "",
          context |-> NoContext, caught |-> "none"]

\* the record of a call that finishes now
Res(t, op, outcome) ==
    [NoRes EXCEPT !.task = t, !.op = op, !.outcome = outcome,
                  !.down = ~ reachable,
                  !.context = fault_context(op, outcome),
                  !.caught = IF outcome = "ok" THEN "none" ELSE ConnectionFault]

\* No add_message has run for more than the TTL: the last one returned
\* normally, longer than ttl_seconds ago, and none has failed since.
Idle == lastAppendDone # -1 /\ ~ appendDirty /\ now - lastAppendDone > ttl_seconds

Parsed(list) == [i \in 1 .. Len(list) |-> from_dict(list[i])]


----------------------------------------------------------------------------
(* RedisContext: operations.  A call that awaits the server more than once  *)
(* is one action per server command; other tasks run in between.            *)

\* no outcome of a store call is waiting to be taken
Ready == cres.op = "none"

Finish(t, r) ==
    /\ cres' = r
    /\ cpc' = [cpc EXCEPT ![t] = "idle"]
    /\ cloc' = [cloc EXCEPT ![t] = NoLoc]

\* add_message up to the rpush it awaits: _get_redis, Message(...), json.dumps
add_message(t, role) ==
    /\ Ready
    /\ cpc[t] = "idle"
    /\ \E o \in get_redis(redis_conn, reachable) :
          /\ redis_conn' = o[1]
          /\ IF o[2] = "RedisError"
             THEN /\ Finish(t, Res(t, "add", "RedisError"))
                  /\ appendDirty' = TRUE
                  /\ UNCHANGED nextId
             ELSE /\ cpc' = [cpc EXCEPT ![t] = "add_rpush"]
                  /\ cloc' = [cloc EXCEPT ![t].msg =
                                 to_dict(Message(role, nextId, now, t, "None"))]
                  /\ nextId' = nextId + 1
                  /\ UNCHANGED <<cres, appendDirty>>
    /\ UNCHANGED <<now, reachable, messages_list, key_ttl, lastAppendDone>>
    /\ UNCHANGED appended
    /\ UNCHANGED regvars

\* add_message pushing at the head of the list (LPUSH)
add_lpush(t) ==
    /\ Ready
    /\ cpc[t] = "add_rpush"
    /\ IF reachable
       THEN /\ messages_list' = <<cloc[t].msg>> \o messages_list
            /\ appended' = Append(appended, cloc[t].msg.content)
            /\ cpc' = [cpc EXCEPT ![t] = "add_expire"]
            /\ cloc' = [cloc EXCEPT ![t].size0 = Len(messages_list)]
            /\ UNCHANGED <<cres, appendDirty>>
       ELSE /\ Finish(t, [Res(t, "add", "ContextError") EXCEPT
                               !.msg = cloc[t].msg])
            /\ appendDirty' = TRUE
            /\ UNCHANGED <<messages_list, appended>>
    /\ UNCHANGED <<now, reachable, redis_conn, key_ttl, nextId, lastAppendDone>>
    /\ UNCHANGED regvars

\* add_message: r.rpush(key, message_json) reaches the server
add_rpush(t) ==
    /\ Ready
    /\ cpc[t] = "add_rpush"
    /\ IF reachable
       THEN /\ messages_list' = Append(messages_list, cloc[t].msg)
            /\ appended' = Append(appended, cloc[t].msg.content)
            /\ cpc' = [cpc EXCEPT ![t] = "add_expire"]
            /\ cloc' = [cloc EXCEPT ![t].size0 = Len(messages_list)]
            /\ UNCHANGED <<cres, appendDirty>>
       ELSE /\ Finish(t, [Res(t, "add", "ContextError") EXCEPT
                               !.msg = cloc[t].msg])
            /\ appendDirty' = TRUE
            /\ UNCHANGED <<messages_list, appended>>
    /\ UNCHANGED <<now, reachable, redis_conn, key_ttl, nextId, lastAppendDone>>
    /\ UNCHANGED regvars

\* add_message: r.expire(key, ttl) reaches the server, then the call returns
add_expire(t) ==
    /\ Ready
    /\ cpc[t] = "add_expire"
    /\ IF reachable
       THEN /\ key_ttl' = IF messages_list # <<>>
                          THEN expire_deadline(key_ttl, now) ELSE key_ttl
            /\ Finish(t, [Res(t, "add", "ok") EXCEPT !.msg = cloc[t].msg,
                                                     !.size0 = cloc[t].size0])
            /\ lastAppendDone' = now
            /\ appendDirty' = FALSE
       ELSE /\ Finish(t, [Res(t, "add", "ContextError") EXCEPT
                               !.msg = cloc[t].msg])
            /\ appendDirty' = TRUE
            /\ UNCHANGED <<key_ttl, lastAppendDone>>
    /\ UNCHANGED <<now, reachable, redis_conn, messages_list, nextId>>
    /\ UNCHANGED appended
    /\ UNCHANGED regvars

\* get_messages(limit, since): _get_redis, LRANGE 0 -1, filter, limit
read(t, limit, since) ==
    /\ Ready
    /\ cpc[t] = "idle"
    /\ \E o \in get_redis(redis_conn, reachable) :
          /\ redis_conn' = o[1]
          /\ IF o[2] = "RedisError"
             THEN Finish(t, Res(t, "read", "RedisError"))
             ELSE IF ~ reachable
             THEN Finish(t, Res(t, "read", "ContextError"))
             ELSE Finish(t, [Res(t, "read", "ok") EXCEPT
                               !.value = get_messages(messages_list, limit, since),
                               !.limit = limit, !.since = since,
                               !.log = Parsed(messages_list),
                               !.idle = Idle /\ \A u \in CtxTasks :
                                                    cpc[u] = "idle"])
    /\ UNCHANGED <<now, reachable, messages_list, key_ttl, nextId,
                   lastAppendDone, appendDirty>>
    /\ UNCHANGED appended
    /\ UNCHANGED regvars

\* get_context_size: _get_redis, LLEN
get_context_size(t) ==
    /\ Ready
    /\ cpc[t] = "idle"
    /\ \E o \in get_redis(redis_conn, reachable) :
          /\ redis_conn' = o[1]
          /\ IF o[2] = "RedisError"
             THEN Finish(t, Res(t, "size", "RedisError"))
             ELSE IF ~ reachable
             THEN Finish(t, Res(t, "size", "ContextError"))
             ELSE Finish(t, [Res(t, "size", "ok") EXCEPT
                               !.count = Len(messages_list)])
    /\ UNCHANGED <<now, reachable, messages_list, key_ttl, nextId,
                   lastAppendDone, appendDirty>>
    /\ UNCHANGED appended
    /\ UNCHANGED regvars

\* clear_context: _get_redis, DEL
clear_context(t) ==
    /\ Ready
    /\ cpc[t] = "idle"
    /\ \E o \in get_redis(redis_conn, reachable) :
          /\ redis_conn' = o[1]
          /\ IF o[2] = "RedisError"
             THEN Finish(t, Res(t, "clear", "RedisError"))
                  /\ UNCHANGED <<messages_list, key_ttl>>
             ELSE IF ~ reachable
             THEN Finish(t, Res(t, "clear", "ContextError"))
                  /\ UNCHANGED <<messages_list, key_ttl>>
             ELSE /\ Finish(t, Res(t, "clear", "ok"))
                  /\ messages_list' = <<>>
                  /\ key_ttl' = NoTTL
    /\ UNCHANGED <<now, reachable, nextId, lastAppendDone, appendDirty>>
    /\ UNCHANGED appended
    /\ UNCHANGED regvars

\* format_for_llm(limit, system_prompt): get_messages(limit), then the script
format_for_llm(t, limit, system_prompt) ==
    /\ Ready
    /\ cpc[t] = "idle"
    /\ \E o \in get_redis(redis_conn, reachable) :
          /\ redis_conn' = o[1]
          /\ IF o[2] = "RedisError"
             THEN Finish(t, Res(t, "render", "RedisError"))
             ELSE IF ~ reachable
             THEN Finish(t, Res(t, "render", "ContextError"))
             ELSE Finish(t, [Res(t, "render", "ok") EXCEPT
                               !.value = format_script(
                                   get_messages(messages_list, limit, NoSince),
                                   system_prompt),
                               !.log = get_messages(messages_list, limit, NoSince),
                               !.system_prompt = system_prompt,
                               !.limit = limit])
    /\ UNCHANGED <<now, reachable, messages_list, key_ttl, nextId,
                   lastAppendDone, appendDirty>>
    /\ UNCHANGED appended
    /\ UNCHANGED regvars

\* prune_old_messages(before) up to the delete it awaits:
\* _get_redis, self.get_messages(), messages_to_keep
prune_old_messages(t, before) ==
    /\ Ready
    /\ cpc[t] = "idle"
    /\ \E o \in get_redis(redis_conn, reachable) :
          /\ redis_conn' = o[1]
          /\ IF o[2] = "RedisError"
             THEN Finish(t, [Res(t, "prune", "RedisError") EXCEPT !.before = before])
             ELSE IF ~ reachable
             THEN Finish(t, [Res(t, "prune", "ContextError") EXCEPT
                               !.before = before,
                               !.context = fault_context("read", "ContextError")])
             ELSE /\ cpc' = [cpc EXCEPT ![t] = "prune_delete"]
                  /\ cloc' = [cloc EXCEPT
                        ![t].messages = get_messages(messages_list, NoLimit, NoSince),
                        ![t].keep = messages_to_keep(
                            get_messages(messages_list, NoLimit, NoSince), before),
                        ![t].before = before]
                  /\ UNCHANGED cres
    /\ UNCHANGED <<now, reachable, messages_list, key_ttl, nextId,
                   lastAppendDone, appendDirty>>
    /\ UNCHANGED appended
    /\ UNCHANGED regvars

\* the record of a prune that ends in t's current step
PruneRes(t, outcome, gone) ==
    [Res(t, "prune", outcome) EXCEPT
        !.before = cloc[t].before,
        !.log = cloc[t].messages,
        !.count = Len(cloc[t].messages) - Len(cloc[t].keep),
        !.gone = gone]

\* prune_old_messages: r.delete(key) reaches the server
prune_delete(t) ==
    /\ Ready
    /\ cpc[t] = "prune_delete"
    /\ IF reachable
       THEN /\ messages_list' = <<>>
            /\ key_ttl' = NoTTL
            /\ IF cloc[t].keep = <<>>
               THEN Finish(t, PruneRes(t, "ok", Contents(messages_list)))
               ELSE /\ cpc' = [cpc EXCEPT ![t] = "prune_rpush"]
                    /\ cloc' = [cloc EXCEPT ![t].gone = Contents(messages_list)]
                    /\ UNCHANGED cres
       ELSE /\ Finish(t, PruneRes(t, "ContextError", {}))
            /\ UNCHANGED <<messages_list, key_ttl>>
    /\ UNCHANGED <<now, reachable, redis_conn, nextId, lastAppendDone, appendDirty>>
    /\ UNCHANGED appended
    /\ UNCHANGED regvars

\* prune_old_messages: r.rpush(key, *messages_json) reaches the server
prune_rpush(t) ==
    /\ Ready
    /\ cpc[t] = "prune_rpush"
    /\ IF reachable
       THEN /\ messages_list' = messages_list \o
                   [i \in 1 .. Len(cloc[t].keep) |-> to_dict(cloc[t].keep[i])]
            /\ cpc' = [cpc EXCEPT ![t] = "prune_expire"]
            /\ cloc' = [cloc EXCEPT ![t].gone = @ \ Contents(cloc[t].keep)]
            /\ UNCHANGED cres
       ELSE /\ Finish(t, PruneRes(t, "ContextError", cloc[t].gone))
            /\ UNCHANGED messages_list
    /\ UNCHANGED <<now, reachable, redis_conn, key_ttl, nextId,
                   lastAppendDone, appendDirty>>
    /\ UNCHANGED appended
    /\ UNCHANGED regvars

\* prune_old_messages: r.expire(key, ttl) reaches the server, then the call
\* returns len(messages) - len(messages_to_keep)
prune_expire(t) ==
    /\ Ready
    /\ cpc[t] = "prune_expire"
    /\ IF reachable
       THEN /\ key_ttl' = IF messages_list # <<>>
                          THEN expire_deadline(key_ttl, now) ELSE key_ttl
            /\ Finish(t, PruneRes(t, "ok", cloc[t].gone))
       ELSE /\ Finish(t, PruneRes(t, "ContextError", cloc[t].gone))
            /\ UNCHANGED key_ttl
    /\ UNCHANGED <<now, reachable, redis_conn, messages_list, nextId,
                   lastAppendDone, appendDirty>>
    /\ UNCHANGED appended
    /\ UNCHANGED regvars

----------------------------------------------------------------------------
(* The Redis server and the clock *)

\* the caller takes the outcome of the call that has just finished
Return ==
    /\ cres.op # "none"
    /\ cres' = NoRes
    /\ UNCHANGED <<now, reachable, redis_conn, messages_list, key_ttl, cpc, cloc,
                   nextId, lastAppendDone, appendDirty>>
    /\ UNCHANGED appended
    /\ UNCHANGED regvars

\* one tick; a key whose deadline is reached is removed whole
Tick ==
    /\ Ready
    /\ now < MaxTime
    /\ now' = now + 1
    /\ IF key_ttl # NoTTL /\ now + 1 >= key_ttl
       THEN messages_list' = <<>> /\ key_ttl' = NoTTL
       ELSE UNCHANGED <<messages_list, key_ttl>>
    /\ UNCHANGED <<reachable, redis_conn, cpc, cloc, cres, nextId,
                   lastAppendDone, appendDirty>>
    /\ UNCHANGED appended
    /\ UNCHANGED regvars

\* the server becomes unreachable
ServerDown ==
    /\ Ready
    /\ reachable
    /\ reachable' = FALSE
    /\ UNCHANGED <<now, redis_conn, messages_list, key_ttl, cpc, cloc, cres,
                   nextId, lastAppendDone, appendDirty>>
    /\ UNCHANGED appended
    /\ UNCHANGED regvars

\* the server is reachable again
ServerUp ==
    /\ Ready
    /\ ~ reachable
    /\ reachable' = TRUE
    /\ UNCHANGED <<now, redis_conn, messages_list, key_ttl, cpc, cloc, cres,
                   nextId, lastAppendDone, appendDirty>>
    /\ UNCHANGED appended
    /\ UNCHANGED regvars

----------------------------------------------------------------------------
(* PluginLoader: the plugins directory *)

Names == {"a", "b", "_t"}

\* what a directory entry holds; each kind takes one path through load_plugin
Kinds == {"nodir",       \* not a directory
          "nomanifest",  \* no plugin.json
          "badjson",     \* plugin.json is not JSON
          "notobject",   \* plugin.json is a JSON number or null
          "nofield",     \* a JSON object without one of the required fields
          "emptyfield",  \* every required field present, "intents": []
          "misnamed",    \* "name" is not the name of the directory
          "disabled",    \* a complete manifest with "enabled": false
          "nohandler",   \* no handler.py
          "importerr",   \* handler.py raises when executed
          "noclass",     \* handler.py defines no PluginInterface subclass
          "twoclasses",  \* handler.py defines two PluginInterface subclasses
          "good"}        \* a complete manifest and a handler with a plugin class

\* a loadable plugin whose execute and health_check never return
Hangs(kind) == kind = "hangs"

\* `plugin_dir.name.startswith("_")`
Reserved(n) == n = "_t"

Intents == {"get_weather"}
Params == {"belfort"}
\* the maps an execute returns
Results == {[success |-> TRUE, data |-> "sunny"],
            [success |-> FALSE, error |-> "unknown intent"]}

\* no map
NoResult == [k \in {} |-> "none"]

\* what a hook or execute may raise ("none": it returns)
HookRaises == {"none", "RuntimeError"}
ExecRaises == {"none", "ValueError", "PluginExecutionError", "CancelledError"}
HealthRaises == {"none", "RuntimeError", "CancelledError"}

\* the classes of shared.errors, all derived from BaseError
Taxonomy == {"ValidationError", "AudioProcessingError", "LLMError",
             "PluginExecutionError", "ContextError", "DatabaseError",
             "RedisError", "ExternalAPIError", "NetworkError",
             "ConfigurationError", "ModelLoadError"}

\* `except Exception`: asyncio.CancelledError derives from BaseException
IsException(e) == e \in {"ValueError", "RuntimeError", "TypeError", "KeyError",
                         "PluginExecutionError", "ConfigurationError"}

----------------------------------------------------------------------------
(* Python dict, as a sequence of <<key, value>> in insertion order *)

DictKeys(d) == {d[i][1] : i \in 1 .. Len(d)}

DictHas(d, k) == k \in DictKeys(d)

\* d[k] for a key that is present
DictGet(d, k) == d[CHOOSE i \in 1 .. Len(d) : d[i][1] = k][2]

\* d.setdefault(k, v): an existing key keeps its value
DictSetDefault(d, k, v) ==
    IF DictHas(d, k) THEN d ELSE Append(d, <<k, v>>)

\* d[k] = v: an existing key keeps its place
DictSet(d, k, v) ==
    IF DictHas(d, k)
    THEN [i \in 1 .. Len(d) |-> IF d[i][1] = k THEN <<k, v>> ELSE d[i]]
    ELSE Append(d, <<k, v>>)

\* del d[k] for a key that is present
DictDel(d, k) == SelectSeq(d, LAMBDA e : e[1] # k)

----------------------------------------------------------------------------
(* PluginLoader: pure parts *)

\* _load_manifest: required_fields
required_fields == {"name", "version", "description", "intents"}

\* the "description" of n's plugin.json
description_of(n) ==
    CASE n = "a" -> "da" [] n = "b" -> "db" [] n = "_t" -> "dt" [] OTHER -> "d"

\* the object json.load returns for n's plugin.json, when it holds an object
manifest_of(n, kind) ==
    LET full == [name |-> IF kind = "misnamed" THEN "shared" ELSE n,
                 version |-> "1.0.0", description |-> description_of(n),
                 intents |-> IF kind = "emptyfield" THEN <<>>
                             ELSE <<"get_weather">>,
                 enabled |-> kind # "disabled"]
    IN  IF kind = "nofield"
        THEN [f \in DOMAIN full \ {"intents"} |-> full[f]]
        ELSE full

\* _load_manifest also refusing a required field that is present but empty
load_manifest_nonempty(kind) ==
    IF kind = "nomanifest" THEN "ConfigurationError"
    ELSE IF kind = "badjson" THEN "ConfigurationError"
    ELSE IF kind = "notobject" THEN "TypeError"
    ELSE IF \E field \in required_fields :
                field \notin DOMAIN manifest_of("x", kind)
    THEN "ConfigurationError"
    ELSE IF \/ manifest_of("x", kind).name = ""
            \/ manifest_of("x", kind).version = ""
            \/ manifest_of("x", kind).description = ""
            \/ manifest_of("x", kind).intents = <<>>
    THEN "ConfigurationError"
    ELSE "manifest"

\* _load_manifest: the manifest, or the fault that leaves it.  `field not in
\* manifest` on a JSON number or null raises TypeError.
load_manifest(kind) ==
    IF kind = "nomanifest" THEN "ConfigurationError"
    ELSE IF kind = "badjson" THEN "ConfigurationError"
    ELSE IF kind = "notobject" THEN "TypeError"
    ELSE IF \E field \in required_fields :
                field \notin DOMAIN manifest_of("x", kind)
    THEN "ConfigurationError"
    ELSE "manifest"

\* the PluginInterface subclasses that dir(module) lists
plugin_classes(kind) ==
    IF kind = "noclass" THEN 0 ELSE IF kind = "twoclasses" THEN 2 ELSE 1

\* _load_plugin_module: an instance, or the fault that leaves it.  The loop
\* over dir(module) takes the first subclass it meets and breaks.
load_plugin_module(kind) ==
    IF kind = "nohandler" THEN "ConfigurationError"
    ELSE IF kind = "importerr" THEN "ConfigurationError"
    ELSE IF plugin_classes(kind) = 0 THEN "ConfigurationError"
    ELSE "instance"

\* load_plugin without the `enabled` test
load_begin_enabled_ignored(kind) ==
    IF kind = "nodir" THEN "ConfigurationError"
    ELSE IF load_manifest(kind) # "manifest" THEN load_manifest(kind)
    ELSE IF load_plugin_module(kind) # "instance" THEN load_plugin_module(kind)
    ELSE "on_load"

\* load_plugin up to `await plugin.on_load()`: the fault raised, "return" for a
\* disabled plugin, or "on_load" when an instance was created
load_begin(kind) ==
    IF kind = "nodir" THEN "ConfigurationError"
    ELSE IF load_manifest(kind) # "manifest" THEN load_manifest(kind)
    ELSE IF ~ manifest_of("x", kind).enabled THEN "return"
    ELSE IF load_plugin_module(kind) # "instance" THEN load_plugin_module(kind)
    ELSE "on_load"

\* ConfigurationError(field, message, context): {"field": field, **context}
ConfigurationError(field, context) ==
    [error |-> "ConfigurationError", message |-> "message",
     context |-> context @@ [field |-> field]]

\* the unclassified fault that _load_manifest or _load_plugin_module caught
\* and wrapped, "none" when the fault is raised as such
caught_type(kind) ==
    IF kind = "badjson" THEN "JSONDecodeError"
    ELSE IF kind = "importerr" THEN "ImportError"
    ELSE "none"

\* the fault load_plugin ends with, for a kind that load_begin says fails
load_fault(kind) ==
    IF load_begin(kind) # "ConfigurationError"
    THEN [error |-> load_begin(kind), message |-> "str(e)", context |-> NoContext]
    ELSE IF kind = "nodir" THEN ConfigurationError("plugin_directory", NoContext)
    ELSE IF load_manifest(kind) # "manifest"
    THEN ConfigurationError(IF kind = "nofield" THEN "intents" ELSE "plugin.json",
                            NoContext)
    ELSE IF kind = "importerr"
    THEN ConfigurationError("handler.py", [error_type |-> caught_type(kind)])
    ELSE ConfigurationError("handler.py", NoContext)

\* load_all_plugins: `except ConfigurationError`
discover_catches(e) == e = "ConfigurationError"

\* load_all_plugins from the entries still to visit up to the next await:
\* "end" of the loop, "on_load" of entry name, or "raise" of a fault
RECURSIVE scan(_, _)
scan(dir, todo) ==
    IF todo = <<>>
    THEN [kind |-> "end", name |-> "none", rest |-> <<>>, error |-> "none"]
    ELSE LET n == Head(todo)
             o == load_begin(dir[n])
         IN  IF dir[n] = "nodir" \/ Reserved(n) THEN scan(dir, Tail(todo))
             ELSE IF o = "on_load"
             THEN [kind |-> "on_load", name |-> n, rest |-> Tail(todo),
                   error |-> "none"]
             ELSE IF o = "return" \/ discover_catches(o) THEN scan(dir, Tail(todo))
             ELSE [kind |-> "raise", name |-> n, rest |-> Tail(todo), error |-> o]

\* None, where an instance is expected
NoInst == [id |-> 0, name |-> "none"]

\* get_plugin: loaded_plugins.get(plugin_name)
get_plugin(plugins, plugin_name) ==
    IF DictHas(plugins, plugin_name) THEN DictGet(plugins, plugin_name) ELSE NoInst

\* PluginExecutionError(plugin_name, intent, message, context)
PluginExecutionError(plugin_name, intent, message, context) ==
    [error |-> "PluginExecutionError", message |-> message,
     context |-> context @@ [plugin |-> plugin_name, intent |-> intent]]

\* `self.loaded_plugins[plugin_name]` in place of the None test
not_loaded_keyerror(plugin_name, intent) ==
    [error |-> "KeyError", message |-> "str(e)", context |-> NoContext]

\* execute_plugin: the fault for a plugin that is not loaded
not_loaded(plugin_name, intent) ==
    PluginExecutionError(plugin_name, intent, "not loaded", NoContext)

\* execute_plugin reporting success whatever the plugin returned
execute_result_success(result) == [result EXCEPT !.success = TRUE]

\* execute_plugin: `result = await plugin.execute(...); return result`
execute_result(result) == result

\* execute_plugin: what leaves the call when execute raised e
execute_fault(plugin_name, intent, params, e) ==
    IF IsException(e)
    THEN PluginExecutionError(plugin_name, intent, "str(e)",
                              [error_type |-> e, params |-> params])
    ELSE [error |-> e, message |-> "str(e)", context |-> NoContext]

\* get_all_plugin_contexts: the three entries appended for one plugin
context_heading(manifest) ==
    [tag |-> "## ", description |-> manifest.description, plugin |-> NoInst]

context_prompt(plugin) ==
    [tag |-> "get_prompt_context", description |-> "", plugin |-> plugin]

context_blank == [tag |-> "", description |-> "", plugin |-> NoInst]

\* get_all_plugin_contexts without the empty entry after each plugin
RECURSIVE plugin_contexts_no_blank(_, _)
plugin_contexts_no_blank(plugins, manifests) ==
    IF plugins = <<>> THEN <<>>
    ELSE <<context_heading(DictGet(manifests, Head(plugins)[1])),
           context_prompt(Head(plugins)[2])>>
         \o plugin_contexts_no_blank(Tail(plugins), manifests)

\* get_all_plugin_contexts: `contexts` after the loop over
\* loaded_plugins.items()
RECURSIVE plugin_contexts(_, _)
plugin_contexts(plugins, manifests) ==
    IF plugins = <<>> THEN <<>>
    ELSE <<context_heading(DictGet(manifests, Head(plugins)[1])),
           context_prompt(Head(plugins)[2]),
           context_blank>>
         \o plugin_contexts(Tail(plugins), manifests)

\* "\n".join(lines), as the lines of the text: no entry and one empty entry
\* both give the empty text
join_lines(lines) == IF lines = <<context_blank>> THEN <<>> ELSE lines

Perms(S) ==
    {q \in [1 .. Cardinality(S) -> S] : \A x \in S : \E i \in DOMAIN q : q[i] = x}

----------------------------------------------------------------------------
(* PluginLoader: state *)

NoRLoc == [op |-> "none", name |-> "none", inst |-> NoInst, todo |-> <<>>,
           intent |-> "none", params |-> "none", created |-> 0,
           pos |-> 0, size |-> 0, status |-> <<>>, checks |-> <<>>,
           pre_plugins |-> <<>>, pre_manifests |-> <<>>]

NoRRes == [task |-> "none", op |-> "none", name |-> "none", error |-> "none",
           message |-> "none", context |-> NoContext, intent |-> "none",
           params |-> "none", raised |-> "none", executed |-> NoInst,
           value |-> NoResult, returned |-> NoResult, caught |-> "none",
           created |-> 0, hook |-> <<>>, lines |-> <<>>,
           status |-> <<>>, checks |-> <<>>,
           pre_plugins |-> <<>>, pre_manifests |-> <<>>]

\* the state after RedisContext(...) and PluginLoader(plugins_dir), over a
\* plugins directory drawn from dirs
InitWith(dirs) ==
    /\ now = 0
    /\ reachable = TRUE
    /\ redis_conn = "None"
    /\ messages_list = <<>>
    /\ key_ttl = NoTTL
    /\ cpc = [t \in CtxTasks |-> "idle"]
    /\ cloc = [t \in CtxTasks |-> NoLoc]
    /\ cres = NoRes
    /\ nextId = 1
    /\ lastAppendDone = -1
    /\ appendDirty = FALSE
    /\ appended = <<>>
    /\ fs \in dirs
    /\ loaded_plugins = <<>>
    /\ plugin_manifests = <<>>
    /\ rpc = [p \in RegTasks |-> "idle"]
    /\ rloc = [p \in RegTasks |-> NoRLoc]
    /\ rres = NoRRes
    /\ nextInst = 1

\* every plugins directory of the model; the reserved entry is a template
AllDirs == {d \in [Names -> Kinds] : d["_t"] \in {"good", "nofield"}}

\* the plugins directory with every entry in order
GoodDirs == {[n \in Names |-> "good"]}

\* plugins directories whose two plugins load, each one answering or hanging
IsoDirs == {d \in [Names -> {"good", "hangs", "nofield"}] :
               d["_t"] = "nofield" /\ d["a"] # "nofield" /\ d["b"] # "nofield"}

\* no outcome of a loader call is waiting to be taken
RReady == rres.op = "none"

\* the call of p finishes with outcome r
RFinish(p, r) ==
    /\ rres' = r
    /\ rpc' = [rpc EXCEPT ![p] = "idle"]
    /\ rloc' = [rloc EXCEPT ![p] = NoRLoc]

\* the record of a call that starts and finishes in the current step
RRes(p, op, n) ==
    [NoRRes EXCEPT !.task = p, !.op = op, !.name = n,
                   !.pre_plugins = loaded_plugins,
                   !.pre_manifests = plugin_manifests]

\* the record of the call p is in, finishing in the current step
RResOf(p) ==
    [NoRRes EXCEPT !.task = p, !.op = rloc[p].op, !.name = rloc[p].name,
                   !.intent = rloc[p].intent, !.params = rloc[p].params,
                   !.created = rloc[p].created,
                   !.status = rloc[p].status, !.checks = rloc[p].checks,
                   !.pre_plugins = rloc[p].pre_plugins,
                   !.pre_manifests = rloc[p].pre_manifests]

WithFault(r, f) ==
    [r EXCEPT !.error = f.error, !.message = f.message, !.context = f.context]

RawFault(e) == [error |-> e, message |-> "str(e)", context |-> NoContext]

\* the record of the call p is in, finishing after the hook it awaited
RResHook(p, hook) == [RResOf(p) EXCEPT !.hook = <<hook, rloc[p].inst>>]

----------------------------------------------------------------------------
(* PluginLoader: operations.  A call is one action per stretch of code that  *)
(* runs without awaiting; other tasks run while a hook or execute is awaited. *)

\* load_plugin storing the plugin and its manifest before it awaits on_load
load_plugin_registers_first(p, n) ==
    /\ RReady
    /\ rpc[p] = "idle"
    /\ IF load_begin(fs[n]) = "on_load"
       THEN /\ rpc' = [rpc EXCEPT ![p] = "on_load"]
            /\ rloc' = [rloc EXCEPT ![p] =
                  [NoRLoc EXCEPT !.op = "load", !.name = n,
                                 !.inst = [id |-> nextInst, name |-> n],
                                 !.created = 1,
                                 !.pre_plugins = loaded_plugins,
                                 !.pre_manifests = plugin_manifests]]
            /\ nextInst' = nextInst + 1
            /\ loaded_plugins' =
                  DictSet(loaded_plugins, n, [id |-> nextInst, name |-> n])
            /\ plugin_manifests' =
                  DictSet(plugin_manifests, n, manifest_of(n, fs[n]))
            /\ UNCHANGED rres
       ELSE /\ RFinish(p, IF load_begin(fs[n]) = "return"
                          THEN RRes(p, "load", n)
                          ELSE WithFault([RRes(p, "load", n) EXCEPT
                                             !.caught = caught_type(fs[n])],
                                         load_fault(fs[n])))
            /\ UNCHANGED <<nextInst, loaded_plugins, plugin_manifests>>
    /\ UNCHANGED fs
    /\ UNCHANGED ctxvars

\* load_plugin(n) up to `await plugin.on_load()`
load_plugin(p, n) ==
    /\ RReady
    /\ rpc[p] = "idle"
    /\ IF load_begin(fs[n]) = "on_load"
       THEN /\ rpc' = [rpc EXCEPT ![p] = "on_load"]
            /\ rloc' = [rloc EXCEPT ![p] =
                  [NoRLoc EXCEPT !.op = "load", !.name = n,
                                 !.inst = [id |-> nextInst, name |-> n],
                                 !.created = 1,
                                 !.pre_plugins = loaded_plugins,
                                 !.pre_manifests = plugin_manifests]]
            /\ nextInst' = nextInst + 1
            /\ UNCHANGED rres
       ELSE /\ RFinish(p, IF load_begin(fs[n]) = "return"
                          THEN RRes(p, "load", n)
                          ELSE WithFault([RRes(p, "load", n) EXCEPT
                                             !.caught = caught_type(fs[n])],
                                         load_fault(fs[n])))
            /\ UNCHANGED nextInst
    /\ UNCHANGED <<fs, loaded_plugins, plugin_manifests>>
    /\ UNCHANGED ctxvars

\* load_all_plugins from the entries todo up to the next await
discover(p, todo, r) ==
    LET sc == scan(fs, todo)
    IN  IF sc.kind = "on_load"
        THEN /\ nextInst <= MaxInst
             /\ rpc' = [rpc EXCEPT ![p] = "on_load"]
             /\ rloc' = [rloc EXCEPT ![p] =
                   [NoRLoc EXCEPT !.op = "discover", !.name = sc.name,
                                  !.inst = [id |-> nextInst, name |-> sc.name],
                                  !.todo = sc.rest,
                                  !.created = r.created + 1,
                                  !.pre_plugins = r.pre_plugins,
                                  !.pre_manifests = r.pre_manifests]]
             /\ nextInst' = nextInst + 1
             /\ UNCHANGED rres
        ELSE /\ RFinish(p, IF sc.kind = "end" THEN [r EXCEPT !.name = "none"]
                           ELSE WithFault([r EXCEPT !.name = sc.name],
                                          RawFault(sc.error)))
             /\ UNCHANGED nextInst

\* load_all_plugins: iterdir() yields the entries in some order
load_all_plugins(p, order) ==
    /\ RReady
    /\ rpc[p] = "idle"
    /\ discover(p, order, RRes(p, "discover", "none"))
    /\ UNCHANGED <<fs, loaded_plugins, plugin_manifests>>
    /\ UNCHANGED ctxvars

\* load_plugin storing the plugin and its manifest before it awaits on_load
on_load_return_stored_first(p, e) ==
    /\ RReady
    /\ rpc[p] = "on_load"
    /\ loaded_plugins' = DictSet(loaded_plugins, rloc[p].name, rloc[p].inst)
    /\ plugin_manifests' =
          DictSet(plugin_manifests, rloc[p].name,
                  manifest_of(rloc[p].name, fs[rloc[p].name]))
    /\ IF e = "none"
       THEN IF rloc[p].op = "load"
            THEN RFinish(p, RResHook(p, "on_load")) /\ UNCHANGED nextInst
            ELSE discover(p, rloc[p].todo, RResHook(p, "on_load"))
       ELSE /\ RFinish(p, WithFault(RResHook(p, "on_load"), RawFault(e)))
            /\ UNCHANGED nextInst
    /\ UNCHANGED fs
    /\ UNCHANGED ctxvars

\* `await plugin.on_load()` returns or raises e; load_plugin then stores the
\* plugin and its manifest, and load_all_plugins goes on with its loop
on_load_return(p, e) ==
    /\ RReady
    /\ rpc[p] = "on_load"
    /\ IF e = "none"
       THEN /\ loaded_plugins' =
                  DictSet(loaded_plugins, rloc[p].name, rloc[p].inst)
            /\ plugin_manifests' =
                  DictSet(plugin_manifests, rloc[p].name,
                          manifest_of(rloc[p].name, fs[rloc[p].name]))
            /\ IF rloc[p].op = "load"
               THEN RFinish(p, RResHook(p, "on_load")) /\ UNCHANGED nextInst
               ELSE discover(p, rloc[p].todo, RResHook(p, "on_load"))
       ELSE /\ RFinish(p, WithFault(RResHook(p, "on_load"), RawFault(e)))
            /\ UNCHANGED <<loaded_plugins, plugin_manifests, nextInst>>
    /\ UNCHANGED fs
    /\ UNCHANGED ctxvars

\* unload_plugin reading loaded_plugins[n] without the `in` test
unload_plugin_unguarded(p, n) ==
    /\ RReady
    /\ rpc[p] = "idle"
    /\ IF DictHas(loaded_plugins, n)
       THEN /\ rpc' = [rpc EXCEPT ![p] = "on_unload"]
            /\ rloc' = [rloc EXCEPT ![p] =
                  [NoRLoc EXCEPT !.op = "unload", !.name = n,
                                 !.inst = get_plugin(loaded_plugins, n),
                                 !.pre_plugins = loaded_plugins,
                                 !.pre_manifests = plugin_manifests]]
            /\ UNCHANGED rres
       ELSE RFinish(p, WithFault(RRes(p, "unload", n), RawFault("KeyError")))
    /\ UNCHANGED <<fs, loaded_plugins, plugin_manifests, nextInst>>
    /\ UNCHANGED ctxvars

\* unload_plugin(n) up to `await plugin.on_unload()`
unload_plugin(p, n) ==
    /\ RReady
    /\ rpc[p] = "idle"
    /\ IF DictHas(loaded_plugins, n)
       THEN /\ rpc' = [rpc EXCEPT ![p] = "on_unload"]
            /\ rloc' = [rloc EXCEPT ![p] =
                  [NoRLoc EXCEPT !.op = "unload", !.name = n,
                                 !.inst = get_plugin(loaded_plugins, n),
                                 !.pre_plugins = loaded_plugins,
                                 !.pre_manifests = plugin_manifests]]
            /\ UNCHANGED rres
       ELSE RFinish(p, RRes(p, "unload", n))
    /\ UNCHANGED <<fs, loaded_plugins, plugin_manifests, nextInst>>
    /\ UNCHANGED ctxvars

\* list(self.loaded_plugins.keys())
plugin_names(plugins) == [i \in 1 .. Len(plugins) |-> plugins[i][1]]

\* the names of todo from the first one that unload_plugin finds registered
RECURSIVE unload_skip(_, _)
unload_skip(plugins, todo) ==
    IF todo = <<>> THEN <<>>
    ELSE IF DictHas(plugins, Head(todo)) THEN todo
    ELSE unload_skip(plugins, Tail(todo))

\* unload_all_plugins from the names todo up to the next `await
\* plugin.on_unload()`, or to its end
unload_all(p, plugins, todo, r) ==
    LET rest == unload_skip(plugins, todo)
    IN  IF rest = <<>>
        THEN RFinish(p, [r EXCEPT !.name = "none"])
        ELSE /\ rpc' = [rpc EXCEPT ![p] = "on_unload"]
             /\ rloc' = [rloc EXCEPT ![p] =
                   [NoRLoc EXCEPT !.op = "unload_all", !.name = Head(rest),
                                  !.inst = get_plugin(plugins, Head(rest)),
                                  !.todo = Tail(rest),
                                  !.pre_plugins = r.pre_plugins,
                                  !.pre_manifests = r.pre_manifests]]
             /\ UNCHANGED rres

\* unload_all_plugins() up to its first await
unload_all_plugins(p) ==
    /\ RReady
    /\ rpc[p] = "idle"
    /\ unload_all(p, loaded_plugins, plugin_names(loaded_plugins),
                  RRes(p, "unload_all", "none"))
    /\ UNCHANGED <<fs, loaded_plugins, plugin_manifests, nextInst>>
    /\ UNCHANGED ctxvars

\* unload_plugin deleting the instance and leaving the manifest
on_unload_return_keeps_manifest(p, e) ==
    /\ RReady
    /\ rpc[p] = "on_unload"
    /\ IF e # "none"
       THEN /\ RFinish(p, WithFault(RResHook(p, "on_unload"), RawFault(e)))
            /\ UNCHANGED loaded_plugins
       ELSE IF ~ DictHas(loaded_plugins, rloc[p].name)
       THEN /\ RFinish(p, WithFault(RResHook(p, "on_unload"), RawFault("KeyError")))
            /\ UNCHANGED loaded_plugins
       ELSE /\ loaded_plugins' = DictDel(loaded_plugins, rloc[p].name)
            /\ IF rloc[p].op = "unload_all"
               THEN unload_all(p, DictDel(loaded_plugins, rloc[p].name),
                               rloc[p].todo, RResHook(p, "on_unload"))
               ELSE RFinish(p, RResHook(p, "on_unload"))
    /\ UNCHANGED <<fs, nextInst, plugin_manifests>>
    /\ UNCHANGED ctxvars

\* `await plugin.on_unload()` returns or raises e; unload_plugin then deletes
\* both entries (`del` of a key that is gone raises KeyError), and
\* unload_all_plugins goes on with its loop
on_unload_return(p, e) ==
    /\ RReady
    /\ rpc[p] = "on_unload"
    /\ IF e # "none"
       THEN /\ RFinish(p, WithFault(RResHook(p, "on_unload"), RawFault(e)))
            /\ UNCHANGED <<loaded_plugins, plugin_manifests>>
       ELSE IF ~ DictHas(loaded_plugins, rloc[p].name)
       THEN /\ RFinish(p, WithFault(RResHook(p, "on_unload"), RawFault("KeyError")))
            /\ UNCHANGED <<loaded_plugins, plugin_manifests>>
       ELSE IF ~ DictHas(plugin_manifests, rloc[p].name)
       THEN /\ RFinish(p, WithFault(RResHook(p, "on_unload"), RawFault("KeyError")))
            /\ loaded_plugins' = DictDel(loaded_plugins, rloc[p].name)
            /\ UNCHANGED plugin_manifests
       ELSE /\ loaded_plugins' = DictDel(loaded_plugins, rloc[p].name)
            /\ plugin_manifests' = DictDel(plugin_manifests, rloc[p].name)
            /\ IF rloc[p].op = "unload_all"
               THEN unload_all(p, DictDel(loaded_plugins, rloc[p].name),
                               rloc[p].todo, RResHook(p, "on_unload"))
               ELSE RFinish(p, RResHook(p, "on_unload"))
    /\ UNCHANGED <<fs, nextInst>>
    /\ UNCHANGED ctxvars

\* execute_plugin(n, intent, params) up to `await plugin.execute(...)`
execute_plugin(p, n, intent, params) ==
    /\ RReady
    /\ rpc[p] = "idle"
    /\ IF get_plugin(loaded_plugins, n) = NoInst
       THEN RFinish(p, WithFault([RRes(p, "dispatch", n) EXCEPT
                                     !.intent = intent, !.params = params],
                                 not_loaded(n, intent)))
       ELSE /\ rpc' = [rpc EXCEPT ![p] = "execute"]
            /\ rloc' = [rloc EXCEPT ![p] =
                  [NoRLoc EXCEPT !.op = "dispatch", !.name = n,
                                 !.inst = get_plugin(loaded_plugins, n),
                                 !.intent = intent, !.params = params,
                                 !.pre_plugins = loaded_plugins,
                                 !.pre_manifests = plugin_manifests]]
            /\ UNCHANGED rres
    /\ UNCHANGED <<fs, loaded_plugins, plugin_manifests, nextInst>>
    /\ UNCHANGED ctxvars

\* execute_plugin taking a plugin whose execute raised out of the registry
execute_return_drops_faulty(p, e, result) ==
    /\ RReady
    /\ rpc[p] = "execute"
    /\ ~ Hangs(fs[rloc[p].name])
    /\ IF e = "none"
       THEN /\ RFinish(p, [RResOf(p) EXCEPT !.value = execute_result(result),
                                            !.returned = result,
                                            !.executed = rloc[p].inst])
            /\ UNCHANGED <<loaded_plugins, plugin_manifests>>
       ELSE /\ RFinish(p, WithFault([RResOf(p) EXCEPT
                                        !.raised = e,
                                        !.caught = IF IsException(e) THEN e
                                                   ELSE "none",
                                        !.executed = rloc[p].inst],
                                    execute_fault(rloc[p].name, rloc[p].intent,
                                                  rloc[p].params, e)))
            /\ loaded_plugins' = DictDel(loaded_plugins, rloc[p].name)
            /\ plugin_manifests' = DictDel(plugin_manifests, rloc[p].name)
    /\ UNCHANGED <<fs, nextInst>>
    /\ UNCHANGED ctxvars

\* `await plugin.execute(intent, params)` returns result or raises e
execute_return(p, e, result) ==
    /\ RReady
    /\ rpc[p] = "execute"
    /\ ~ Hangs(fs[rloc[p].name])
    /\ IF e = "none"
       THEN RFinish(p, [RResOf(p) EXCEPT !.value = execute_result(result),
                                         !.returned = result,
                                         !.executed = rloc[p].inst])
       ELSE RFinish(p, WithFault([RResOf(p) EXCEPT
                                     !.raised = e,
                                     !.caught = IF IsException(e) THEN e
                                                ELSE "none",
                                     !.executed = rloc[p].inst],
                                 execute_fault(rloc[p].name, rloc[p].intent,
                                               rloc[p].params, e)))
    /\ UNCHANGED <<fs, loaded_plugins, plugin_manifests, nextInst>>
    /\ UNCHANGED ctxvars

\* health_check_all: the `for` statement takes the next item of
\* loaded_plugins.items() after `pos` items, with the status and checks so
\* far; the iterator raises RuntimeError when the dict has changed size
health_next(p, r, pos, size) ==
    IF Len(loaded_plugins) # size
    THEN RFinish(p, WithFault(r, RawFault("RuntimeError")))
    ELSE IF pos >= Len(loaded_plugins)
    THEN RFinish(p, r)
    ELSE /\ rpc' = [rpc EXCEPT ![p] = "health_check"]
         /\ rloc' = [rloc EXCEPT ![p] =
               [NoRLoc EXCEPT !.op = "health",
                              !.name = loaded_plugins[pos + 1][1],
                              !.inst = loaded_plugins[pos + 1][2],
                              !.pos = pos + 1, !.size = size,
                              !.status = r.status, !.checks = r.checks,
                              !.pre_plugins = r.pre_plugins,
                              !.pre_manifests = r.pre_manifests]]
         /\ UNCHANGED rres

\* health_check_all() up to the first `await plugin.health_check()`
health_check_all(p) ==
    /\ RReady
    /\ rpc[p] = "idle"
    /\ health_next(p, RRes(p, "health", "none"), 0, Len(loaded_plugins))
    /\ UNCHANGED <<fs, loaded_plugins, plugin_manifests, nextInst>>
    /\ UNCHANGED ctxvars

\* health_check_all: what `except Exception` makes of the check of one plugin
health_status(e, is_healthy) ==
    IF e = "none" THEN is_healthy ELSE FALSE

\* `await plugin.health_check()` returns is_healthy or raises e;
\* health_check_all records the status and goes on with its loop
health_check_return(p, e, is_healthy) ==
    /\ RReady
    /\ rpc[p] = "health_check"
    /\ ~ Hangs(fs[rloc[p].name])
    /\ LET r == [RResOf(p) EXCEPT
                    !.checks = Append(@, <<rloc[p].name, e,
                                           e = "none" /\ is_healthy>>)]
       IN  IF e # "none" /\ ~ IsException(e)
           THEN RFinish(p, WithFault(r, RawFault(e)))
           ELSE health_next(p, [r EXCEPT !.status =
                                   DictSet(@, rloc[p].name,
                                           health_status(e, is_healthy))],
                            rloc[p].pos, rloc[p].size)
    /\ UNCHANGED <<fs, loaded_plugins, plugin_manifests, nextInst>>
    /\ UNCHANGED ctxvars

\* get_all_plugin_contexts(): it awaits nothing
get_all_plugin_contexts(p) ==
    /\ RReady
    /\ rpc[p] = "idle"
    /\ IF \E i \in 1 .. Len(loaded_plugins) :
             ~ DictHas(plugin_manifests, loaded_plugins[i][1])
       THEN RFinish(p, WithFault(RRes(p, "contexts", "none"),
                                 RawFault("KeyError")))
       ELSE RFinish(p, [RRes(p, "contexts", "none") EXCEPT
                           !.lines = join_lines(plugin_contexts(
                                         loaded_plugins, plugin_manifests))])
    /\ UNCHANGED <<fs, loaded_plugins, plugin_manifests, nextInst>>
    /\ UNCHANGED ctxvars

\* the caller takes the outcome of the loader call that has just finished
RReturn ==
    /\ rres.op # "none"
    /\ rres' = NoRRes
    /\ UNCHANGED <<fs, loaded_plugins, plugin_manifests, rpc, rloc, nextInst>>
    /\ UNCHANGED ctxvars

\* the loader called by one task, one call at a time
RegNext ==
    \/ \E n \in Names : nextInst <= MaxInst /\ load_plugin("r1", n)
    \/ \E order \in Perms(Names) : load_all_plugins("r1", order)
    \/ \E e \in HookRaises : on_load_return("r1", e)
    \/ \E n \in Names : unload_plugin("r1", n)
    \/ unload_all_plugins("r1")
    \/ \E e \in HookRaises : on_unload_return("r1", e)
    \/ \E n \in Names, i \in Intents, a \in Params : execute_plugin("r1", n, i, a)
    \/ \E e \in ExecRaises, r \in Results : execute_return("r1", e, r)
    \/ get_all_plugin_contexts("r1")
    \/ health_check_all("r1")
    \/ \E e \in HealthRaises, h \in BOOLEAN : health_check_return("r1", e, h)
    \/ RReturn

\* the store with tasks c1 and c2 calling it concurrently.  The two tasks are
\* interchangeable, so c1 only appends and c2 makes every call: each pair of
\* overlapping calls occurs.
CtxNext ==
    \/ \E t \in CtxTasks : nextId <= MaxMsgs /\ add_message(t, "user")
    \/ \E t \in CtxTasks : add_rpush(t)
    \/ \E t \in CtxTasks : add_expire(t)
    \/ read("c2", NoLimit, NoSince)
    \/ get_context_size("c2")
    \/ clear_context("c2")
    \/ format_for_llm("c2", NoLimit, "")
    \/ \E before \in 0 .. MaxTime : prune_old_messages("c2", before)
    \/ prune_delete("c2")
    \/ prune_rpush("c2")
    \/ prune_expire("c2")
    \/ Tick
    \/ Return

SpecCtx == InitWith(GoodDirs) /\ [][CtxNext]_vars

\* the store called by one task, one call at a time, with every argument
SeqNext ==
    \/ \E role \in Roles : nextId <= MaxSeqMsgs /\ add_message("c1", role)
    \/ add_rpush("c1")
    \/ add_expire("c1")
    \/ \E limit \in Limits, since \in Sinces : read("c1", limit, since)
    \/ get_context_size("c1")
    \/ clear_context("c1")
    \/ \E limit \in Limits, sp \in {"", "sys"} : format_for_llm("c1", limit, sp)
    \/ \E before \in 0 .. MaxTime : prune_old_messages("c1", before)
    \/ prune_delete("c1")
    \/ prune_rpush("c1")
    \/ prune_expire("c1")
    \/ Tick
    \/ Return

SpecSeq == InitWith(GoodDirs) /\ [][SeqNext]_vars

\* the store called by one task while the server may become unreachable and
\* reachable again between any two commands
FailNext ==
    \/ nextId <= MaxMsgs /\ add_message("c1", "user")
    \/ add_rpush("c1")
    \/ add_expire("c1")
    \/ read("c1", NoLimit, NoSince)
    \/ get_context_size("c1")
    \/ clear_context("c1")
    \/ format_for_llm("c1", NoLimit, "")
    \/ \E before \in 0 .. MaxTime : prune_old_messages("c1", before)
    \/ prune_delete("c1")
    \/ prune_rpush("c1")
    \/ prune_expire("c1")
    \/ Tick
    \/ ServerDown
    \/ ServerUp
    \/ Return

SpecFail == InitWith(GoodDirs) /\ [][FailNext]_vars

\* the store called by one task that passes any role and renders the log
RenderNext ==
    \/ \E role \in AnyRoles : nextId <= MaxMsgs /\ add_message("c1", role)
    \/ add_rpush("c1")
    \/ add_expire("c1")
    \/ read("c1", NoLimit, NoSince)
    \/ \E limit \in Limits, sp \in {"", "sys"} : format_for_llm("c1", limit, sp)
    \/ Tick
    \/ Return

SpecRender == InitWith(GoodDirs) /\ [][RenderNext]_vars

\* the store with tasks c1 and c2 both appending and both reading, their
\* calls overlapping at every await
AppendNext ==
    \/ \E t \in CtxTasks : nextId <= MaxMsgs /\ add_message(t, "user")
    \/ \E t \in CtxTasks : add_rpush(t)
    \/ \E t \in CtxTasks : add_expire(t)
    \/ \E t \in CtxTasks : read(t, NoLimit, NoSince)
    \/ Tick
    \/ Return

SpecAppend == InitWith(GoodDirs) /\ [][AppendNext]_vars

SpecReg == InitWith(AllDirs) /\ [][RegNext]_vars

\* the plugin directories that tasks running side by side load and unload
ParNames == {"a", "b"}

\* the loader called by two tasks side by side: a call of one task runs
\* while the other is suspended in a hook, an execute or a health_check
ParNext ==
    \/ \E p \in RegTasks, n \in ParNames :
          nextInst <= MaxInst /\ load_plugin(p, n)
    \/ \E p \in RegTasks, e \in HookRaises : on_load_return(p, e)
    \/ \E p \in RegTasks, n \in ParNames : unload_plugin(p, n)
    \/ \E p \in RegTasks : unload_all_plugins(p)
    \/ \E p \in RegTasks, e \in HookRaises : on_unload_return(p, e)
    \/ \E p \in RegTasks, n \in ParNames, i \in Intents, a \in Params :
          execute_plugin(p, n, i, a)
    \/ \E p \in RegTasks, e \in {"none", "ValueError"}, r \in Results :
          execute_return(p, e, r)
    \/ \E p \in RegTasks : health_check_all(p)
    \/ \E p \in RegTasks, e \in {"none", "RuntimeError"}, h \in BOOLEAN :
          health_check_return(p, e, h)
    \/ RReturn

SpecPar == InitWith(GoodDirs) /\ [][ParNext]_vars

\* the loader with two tasks: each plugin is loaded once, while no scan is in
\* progress; both tasks dispatch and scan concurrently; an execute or a
\* health_check returns, raises an Exception, or hangs
IsoNext ==
    \/ \E n \in Names : /\ ~ DictHas(loaded_plugins, n)
                         /\ nextInst <= MaxInst
                         /\ rpc["r2"] = "idle"
                         /\ load_plugin("r1", n)
    \/ \E e \in HookRaises : on_load_return("r1", e)
    \/ \E p \in RegTasks, n \in Names, i \in Intents, a \in Params :
          execute_plugin(p, n, i, a)
    \/ \E p \in RegTasks, e \in {"none", "ValueError"}, r \in Results :
          execute_return(p, e, r)
    \/ \E p \in RegTasks : rpc["r1"] # "on_load" /\ health_check_all(p)
    \/ \E p \in RegTasks, e \in {"none", "RuntimeError"}, h \in BOOLEAN :
          health_check_return(p, e, h)
    \/ RReturn

\* the event loop resumes every task whose awaited call has returned, and
\* every caller takes the outcome of its call
IsoFair ==
    /\ SF_vars(\E e \in HookRaises : on_load_return("r1", e))
    /\ \A p \in RegTasks :
          /\ SF_vars(\E e \in {"none", "ValueError"}, r \in Results :
                        execute_return(p, e, r))
          /\ SF_vars(\E e \in {"none", "RuntimeError"}, h \in BOOLEAN :
                        health_check_return(p, e, h))
    /\ WF_vars(RReturn)

SpecIso == InitWith(IsoDirs) /\ [][IsoNext]_vars /\ IsoFair

----------------------------------------------------------------------------
(* Claims about the context store *)

\* position in the stored list of the message with content c
PosInList(c) == CHOOSE k \in 1 .. Len(messages_list) : messages_list[k].content = c

\* C1: a prune that returns has removed only messages that were in the log
\* when it read it and whose timestamp is strictly earlier than `before`; a
\* message appended after that read is not removed.
C1_PruneRemovesOnlySnapshot ==
    (cres.op = "prune" /\ cres.outcome = "ok") =>
        \A c \in cres.gone :
            \E i \in 1 .. Len(cres.log) :
                cres.log[i].content = c /\ cres.log[i].timestamp < cres.before

\* C6: a read made more than the TTL after the last add_message returned, with
\* no add_message since, returns the empty sequence, whatever read, size,
\* render or prune calls were made in between.
C6_IdleReadIsEmpty ==
    (cres.op = "read" /\ cres.outcome = "ok" /\ cres.idle) => cres.value = <<>>

\* C7: the key expires only when at least the TTL has passed since the last
\* add_message returned, and expiry removes every message of the log.
C7_ActiveNeverExpires ==
    [][(now' = now + 1 /\ messages_list' # messages_list) =>
          /\ messages_list' = <<>>
          /\ lastAppendDone = -1 \/ now' - lastAppendDone >= ttl_seconds]_vars

\* C7 witness: a message older than the TTL is still in the log because a
\* later add_message returned less than the TTL ago.
C7_Witness ==
    /\ Len(messages_list) >= 2
    /\ now - messages_list[1].timestamp >= ttl_seconds
    /\ lastAppendDone # -1 /\ now - lastAppendDone < ttl_seconds
    /\ cres.op = "add" /\ cres.outcome = "ok"

\* C8: a store call made while the server is unreachable ends with RedisError.
C8_UnreachableIsRedisError ==
    (cres.op # "none" /\ cres.down) => cres.outcome = "RedisError"

LastN(s, n) == [i \in 1 .. n |-> s[Len(s) - n + i]]

\* C10: get_messages(limit = n), n >= 0, returns at most n messages, the last
\* n of the since-filtered log.
C10_LimitBounds ==
    (cres.op = "read" /\ cres.outcome = "ok" /\ cres.limit # NoLimit) =>
        LET all == SelectSeq(cres.log,
                             LAMBDA m : cres.since = NoSince
                                        \/ m.timestamp >= cres.since)
        IN  /\ Len(cres.value) <= cres.limit
            /\ cres.value = IF cres.limit >= Len(all) THEN all
                            ELSE LastN(all, cres.limit)

\* place of content c in the order the add_message rpushes were served
AppendRank(c) == CHOOSE k \in 1 .. Len(appended) : appended[k] = c

\* C11: whatever appends and prunes overlapped before it, a read returns the
\* messages in ascending timestamp order and in the order they were appended:
\* of two returned messages the earlier one has a timestamp not later than
\* the other's and its rpush was served first.
C11_ReadOrdered ==
    (cres.op = "read" /\ cres.outcome = "ok") =>
        \A i, j \in 1 .. Len(cres.value) :
            i < j =>
                /\ cres.value[i].timestamp <= cres.value[j].timestamp
                /\ AppendRank(cres.value[i].content)
                      < AppendRank(cres.value[j].content)

\* C12: with one caller, a prune that returns leaves exactly the messages of
\* the log it read whose timestamp is not earlier than `before`, in their
\* order, and returns the number it removed; when `before` is later than
\* every timestamp, a read of the log is then empty and its size is 0.
C12_PruneExact ==
    (cres.op = "prune" /\ cres.outcome = "ok") =>
        /\ Parsed(messages_list) =
              SelectSeq(cres.log, LAMBDA m : ~ (m.timestamp < cres.before))
        /\ cres.count = Len(cres.log) - Len(messages_list)
        /\ (\A i \in 1 .. Len(cres.log) : cres.log[i].timestamp < cres.before) =>
              /\ get_messages(messages_list, NoLimit, NoSince) = <<>>
              /\ Len(messages_list) = 0

\* C12 witness: a prune returned after removing a message older than `before`
\* and keeping one stamped exactly `before`.
C12_Witness ==
    /\ cres.op = "prune" /\ cres.outcome = "ok"
    /\ \E i \in 1 .. Len(cres.log) : cres.log[i].timestamp < cres.before
    /\ \E i \in 1 .. Len(cres.log) : cres.log[i].timestamp = cres.before
    /\ cres.count >= 1
    /\ messages_list # <<>>

\* C13: when add_message has returned, a read with limit 1 returns exactly
\* one message, with the role, content and client_id that were passed; it is
\* the last message of an unlimited read; and the size is one more than the
\* size the log had when the message was pushed.
C13_AppendThenRead ==
    (cres.op = "add" /\ cres.outcome = "ok") =>
        LET one == get_messages(messages_list, 1, NoSince)
            all == get_messages(messages_list, NoLimit, NoSince)
        IN  /\ Len(one) = 1
            /\ one[1].role = cres.msg.role
            /\ one[1].content = cres.msg.content
            /\ one[1].client_id = cres.msg.client_id
            /\ one[1] = all[Len(all)]
            /\ Len(messages_list) = cres.size0 + 1

\* the delimiter that opens the turn of a message with this role
RoleDelimiter(role) ==
    CASE role = "user" -> "<|user|>"
      [] role = "assistant" -> "<|assistant|>"
      [] role = "system" -> "<|system|>"
      [] OTHER -> "<|other|>"

\* C26: the script format_for_llm returns is the system turn when a system
\* prompt was passed, then one turn for each retained message, in read order
\* and opened by the delimiter of its role, then the open assistant marker.
C26_RenderEveryMessage ==
    (cres.op = "render" /\ cres.outcome = "ok") =>
        LET off == IF cres.system_prompt # "" THEN 1 ELSE 0
        IN  /\ Len(cres.value) = off + Len(cres.log) + 1
            /\ off = 1 => cres.value[1] = <<"<|system|>", cres.system_prompt>>
            /\ \A i \in 1 .. Len(cres.log) :
                  cres.value[off + i] =
                      <<RoleDelimiter(cres.log[i].role), cres.log[i].content>>
            /\ cres.value[Len(cres.value)] = <<"<|assistant|>", "open">>

\* C29: every message of the log has role user, assistant or system.
C29_RolesInEnum ==
    \A i \in 1 .. Len(messages_list) : messages_list[i].role \in Roles

----------------------------------------------------------------------------
(* Claims about the plugin loader *)

\* C2: a load_plugin that ends with a fault leaves loaded_plugins and
\* plugin_manifests as they were when it was called.
C2_FailedLoadLeavesRegistry ==
    (rres.op = "load" /\ rres.error # "none") =>
        /\ loaded_plugins = rres.pre_plugins
        /\ plugin_manifests = rres.pre_manifests

\* C2 witness: on_load raised while another plugin was registered.
C2_Witness ==
    /\ rres.op = "load" /\ rres.error = "RuntimeError"
    /\ loaded_plugins # <<>>

\* C3: whatever execute raises, execute_plugin ends with a
\* PluginExecutionError whose context holds the plugin name, the intent, the
\* params and the type name of what was raised.
C3_EveryFaultNormalized ==
    (rres.op = "dispatch" /\ rres.raised # "none") =>
        /\ rres.error = "PluginExecutionError"
        /\ DOMAIN rres.context = {"plugin", "intent", "params", "error_type"}
        /\ rres.context["plugin"] = rres.name
        /\ rres.context["intent"] = rres.intent
        /\ rres.context["params"] = rres.params
        /\ rres.context["error_type"] = rres.raised

\* C4: execute_plugin for a name that was not in loaded_plugins ends with the
\* "not loaded" PluginExecutionError for that name and runs no execute.
C4_NotLoadedFault ==
    (rres.op = "dispatch" /\ ~ DictHas(rres.pre_plugins, rres.name)) =>
        /\ rres.error = "PluginExecutionError"
        /\ rres.message = "not loaded"
        /\ "plugin" \in DOMAIN rres.context
        /\ rres.context["plugin"] = rres.name
        /\ rres.executed = NoInst
        /\ rres.raised = "none"

\* C4 witness: a dispatch to a loadable plugin that is not registered, while
\* another plugin is.
C4_Witness ==
    /\ rres.op = "dispatch" /\ ~ DictHas(rres.pre_plugins, rres.name)
    /\ fs[rres.name] = "good"
    /\ rres.pre_plugins # <<>>

\* C5: load_all_plugins never raises, and when it returns every entry without
\* the reserved prefix that can be loaded, other than one that failed, is
\* registered.
C5_DiscoverNeverAborts ==
    rres.op = "discover" =>
        /\ rres.error = "none"
        /\ \A n \in Names :
              (~ Reserved(n) /\ fs[n] = "good" /\ n # rres.name) =>
                  DictHas(loaded_plugins, n)

\* C14: every manifest in plugin_manifests has name, version, description and
\* intents present and non-empty, and a load_plugin whose manifest lacks a
\* required field or has an empty one ends with ConfigurationError.
C14_StoredManifestsComplete ==
    /\ \A i \in 1 .. Len(plugin_manifests) :
          LET manifest == plugin_manifests[i][2]
          IN  /\ required_fields \subseteq DOMAIN manifest
              /\ manifest.name # ""
              /\ manifest.version # ""
              /\ manifest.description # ""
              /\ manifest.intents # <<>>
    /\ (rres.op = "load" /\ fs[rres.name] \in {"nofield", "emptyfield"}) =>
          rres.error = "ConfigurationError"

\* C15: no two entries of plugin_manifests hold the same manifest name, and
\* every key of the registry is the name field of the manifest stored under it.
C15_NamesUniqueAndKeyed ==
    /\ DictKeys(loaded_plugins) = DictKeys(plugin_manifests)
    /\ \A i \in 1 .. Len(plugin_manifests) :
          plugin_manifests[i][2].name = plugin_manifests[i][1]
    /\ \A i, j \in 1 .. Len(plugin_manifests) :
          i # j => plugin_manifests[i][2].name # plugin_manifests[j][2].name

\* C16: load_plugin of a plugin whose manifest has "enabled": false returns
\* normally, creates no instance, awaits no hook and leaves loaded_plugins and
\* plugin_manifests as they were; the name is then not loaded for a dispatch.
C16_DisabledLoadsNothing ==
    (rres.op = "load" /\ fs[rres.name] = "disabled") =>
        /\ rres.error = "none"
        /\ rres.created = 0
        /\ rres.hook = <<>>
        /\ loaded_plugins = rres.pre_plugins
        /\ plugin_manifests = rres.pre_manifests
        /\ get_plugin(loaded_plugins, rres.name) = NoInst

\* C16 witness: a disabled plugin was loaded while another plugin is registered.
C16_Witness ==
    /\ rres.op = "load" /\ fs[rres.name] = "disabled"
    /\ rres.error = "none"
    /\ loaded_plugins # <<>>

\* C17: load_plugin creates and registers an instance only when handler.py
\* holds exactly one PluginInterface subclass; with none or with more than one
\* it ends with ConfigurationError, creates no instance and registers nothing.
C17_ExactlyOneImplementer ==
    rres.op = "load" =>
        /\ rres.created > 0 => plugin_classes(fs[rres.name]) = 1
        /\ fs[rres.name] \in {"noclass", "twoclasses"} =>
              /\ rres.error = "ConfigurationError"
              /\ rres.created = 0
              /\ loaded_plugins = rres.pre_plugins
              /\ plugin_manifests = rres.pre_manifests

\* C18: load_plugin of a plugin whose plugin.json is missing, is not JSON, is
\* JSON but not an object, or lacks a required field ends with
\* ConfigurationError.
C18_ManifestProblemsClassified ==
    (rres.op = "load"
        /\ fs[rres.name] \in {"nomanifest", "badjson", "notobject", "nofield"}) =>
        rres.error = "ConfigurationError"

\* C19: an unload_plugin of a registered name that has finished has awaited
\* on_unload of that instance, once, and the name is in neither
\* loaded_plugins nor plugin_manifests.
C19_UnloadEndsUnregistered ==
    (rres.op = "unload" /\ DictHas(rres.pre_plugins, rres.name)) =>
        /\ rres.hook = <<"on_unload", DictGet(rres.pre_plugins, rres.name)>>
        /\ ~ DictHas(loaded_plugins, rres.name)
        /\ ~ DictHas(plugin_manifests, rres.name)

\* C20: unload_plugin of a name that is not in loaded_plugins returns
\* normally, awaits no hook and leaves the registry as it was.
C20_UnloadUnknownIsNoop ==
    (rres.op = "unload" /\ ~ DictHas(rres.pre_plugins, rres.name)) =>
        /\ rres.error = "none"
        /\ rres.hook = <<>>
        /\ loaded_plugins = rres.pre_plugins
        /\ plugin_manifests = rres.pre_manifests

\* C20 witness: an unload of a loadable plugin that is not registered, while
\* another plugin is.
C20_Witness ==
    /\ rres.op = "unload" /\ ~ DictHas(rres.pre_plugins, rres.name)
    /\ fs[rres.name] = "good"
    /\ rres.pre_plugins # <<>>

\* C21: a load_plugin that returns normally for a name already in the
\* registry leaves the new instance and the manifest just read under that
\* name, leaves every other entry as it was, and get_plugin then returns the
\* new instance, not the one it replaced.
C21_ReloadReplaces ==
    (rres.op = "load" /\ rres.error = "none" /\ rres.created = 1
        /\ DictHas(rres.pre_plugins, rres.name)) =>
        /\ get_plugin(loaded_plugins, rres.name) = rres.hook[2]
        /\ get_plugin(loaded_plugins, rres.name)
              # DictGet(rres.pre_plugins, rres.name)
        /\ DictGet(plugin_manifests, rres.name)
              = manifest_of(rres.name, fs[rres.name])
        /\ DictKeys(loaded_plugins) = DictKeys(rres.pre_plugins)
        /\ DictKeys(plugin_manifests) = DictKeys(rres.pre_manifests)
        /\ \A k \in DictKeys(rres.pre_plugins) \ {rres.name} :
              /\ DictGet(loaded_plugins, k) = DictGet(rres.pre_plugins, k)
              /\ DictGet(plugin_manifests, k) = DictGet(rres.pre_manifests, k)

\* C21 witness: a registered plugin was loaded again while another plugin
\* is registered.
C21_Witness ==
    /\ rres.op = "load" /\ rres.error = "none" /\ rres.created = 1
    /\ DictHas(rres.pre_plugins, rres.name)
    /\ Len(loaded_plugins) >= 2

\* C22: get_all_plugin_contexts returns, for the plugins of loaded_plugins in
\* their order, the description of the plugin's manifest, then the text of
\* its get_prompt_context, then an empty line; nothing else appears, and with
\* no plugin registered the text is empty.
C22_ContextsInRegistryOrder ==
    rres.op = "contexts" =>
        /\ rres.error = "none"
        /\ Len(rres.lines) = 3 * Len(loaded_plugins)
        /\ \A i \in 1 .. Len(loaded_plugins) :
              /\ rres.lines[3 * i - 2].tag = "## "
              /\ rres.lines[3 * i - 2].description =
                    DictGet(plugin_manifests, loaded_plugins[i][1]).description
              /\ rres.lines[3 * i - 1].tag = "get_prompt_context"
              /\ rres.lines[3 * i - 1].plugin = loaded_plugins[i][2]
              /\ rres.lines[3 * i] = context_blank

\* C22 witness: the contexts of two plugins, the one registered first not
\* being the first by name.
C22_Witness ==
    /\ rres.op = "contexts" /\ rres.error = "none"
    /\ Len(loaded_plugins) >= 2
    /\ loaded_plugins[1][1] = "b"
    /\ Len(rres.lines) = 6

\* C23: health_check_all returns a status for every plugin of loaded_plugins:
\* False for a plugin whose health_check raised, and for every other plugin
\* what its health_check returned; it never ends with a fault.
C23_HealthScanIsolatesFaults ==
    rres.op = "health" =>
        /\ rres.error = "none"
        /\ DictKeys(rres.status) = DictKeys(loaded_plugins)
        /\ \A i \in 1 .. Len(rres.checks) :
              DictGet(rres.status, rres.checks[i][1]) =
                  IF rres.checks[i][2] # "none" THEN FALSE
                  ELSE rres.checks[i][3]

\* the plugins of loaded_plugins that answer
Answering == {n \in DictKeys(loaded_plugins) : ~ Hangs(fs[n])}

\* C24: whatever another plugin does, a dispatch that has reached the execute
\* of a plugin that answers completes, and a health_check_all scan that has
\* started produces the status of every registered plugin that answers.
C24_LatencyIsolated ==
    /\ \A p \in RegTasks :
          (rpc[p] = "execute" /\ ~ Hangs(fs[rloc[p].name]))
              ~> (rres.task = p /\ rres.op = "dispatch")
    /\ \A p \in RegTasks, n \in Names :
          (rpc[p] = "health_check" /\ n \in Answering)
              ~> (rres.task = p /\ rres.op = "health"
                    /\ DictHas(rres.status, n))

\* C25: when the execute of a loaded plugin returns a map, execute_plugin
\* returns that map: the same keys with the same values, whether its
\* "success" is true or false.
C25_ResultUnmodified ==
    (rres.op = "dispatch" /\ rres.executed # NoInst /\ rres.raised = "none") =>
        /\ rres.error = "none"
        /\ DOMAIN rres.value = DOMAIN rres.returned
        /\ \A k \in DOMAIN rres.returned : rres.value[k] = rres.returned[k]

\* C25 witness: a dispatch returned the map of an execute that reported
\* success = false.
C25_Witness ==
    /\ rres.op = "dispatch" /\ rres.executed # NoInst /\ rres.raised = "none"
    /\ "success" \in DOMAIN rres.returned
    /\ ~ rres.returned["success"]
    /\ "error" \in DOMAIN rres.value

\* C27: every fault that wraps a caught unclassified fault, the
\* ConfigurationError of _load_manifest and of _load_plugin_module, the
\* RedisError of _get_redis, the ContextError of each store operation and the
\* PluginExecutionError of execute_plugin, has in its context the type name
\* of the fault it caught.
C27_WrappedTypeKept ==
    /\ rres.caught # "none" =>
          /\ "error_type" \in DOMAIN rres.context
          /\ rres.context["error_type"] = rres.caught
    /\ cres.caught # "none" =>
          /\ "error_type" \in DOMAIN cres.context
          /\ cres.context["error_type"] = cres.caught

\* C28: every finished call of the loader (load_plugin, load_all_plugins,
\* unload_plugin, unload_all_plugins, execute_plugin, health_check_all) and of
\* the store either succeeded or ended with a fault of the taxonomy, also
\* when on_load or on_unload raised.
C28_OnlyClassifiedFaults ==
    /\ rres.op # "none" => rres.error \in {"none"} \cup Taxonomy
    /\ cres.op # "none" => cres.outcome \in {"ok"} \cup Taxonomy

\* the contents of a sequence of messages, in its order
ContentSeq(msgs) == [i \in 1 .. Len(msgs) |-> msgs[i].content]

Loadable(n) ==
    /\ fs[n] \notin {"nodir", "nomanifest", "badjson", "notobject"}
    /\ required_fields \subseteq DOMAIN manifest_of(n, fs[n])
    /\ manifest_of(n, fs[n]).enabled
    /\ fs[n] \notin {"nohandler", "importerr"}
    /\ plugin_classes(fs[n]) >= 1

C32_RegisteredAfterOnLoad ==
    \A p \in RegTasks :
        rpc[p] = "on_load" =>
            /\ \A i \in 1 .. Len(loaded_plugins) :
                  loaded_plugins[i][2] # rloc[p].inst
            /\ \A q \in RegTasks :
                  rpc[q] \in {"execute", "health_check"} =>
                      rloc[q].inst # rloc[p].inst

\* C32 witness: a dispatch to a name whose load is suspended in on_load
\* ended "not loaded" and ran no execute.
C32_Witness ==
    /\ rres.op = "dispatch" /\ rres.error = "PluginExecutionError"
    /\ rres.executed = NoInst
    /\ \E p \in RegTasks : rpc[p] = "on_load" /\ rloc[p].name = rres.name

\* C33: no step starts an execute (a task becomes suspended in `await
\* plugin.execute(...)`) on an instance that some task has already passed to
\* `await plugin.on_unload()`.
C33_NoExecuteAfterOnUnload ==
    [][\A q \in RegTasks :
          (rpc[q] # "execute" /\ rpc'[q] = "execute") =>
              ~ \E p \in RegTasks :
                    /\ rpc[p] = "on_unload"
                    /\ rloc[p].inst = rloc'[q].inst]_vars

\* the instances registered in a dict
InstsOf(plugins) == {plugins[i][2] : i \in 1 .. Len(plugins)}

\* C34: an instance leaves loaded_plugins only in a step in which a task
\* comes back from `await plugin.on_unload()` of that instance, also when the
\* step is a load_plugin of the same name that puts a new instance in its
\* place.
C34_OnUnloadBeforeDropped ==
    [][\A inst \in InstsOf(loaded_plugins) \ InstsOf(loaded_plugins') :
          \E p \in RegTasks :
              rpc[p] = "on_unload" /\ rloc[p].inst = inst]_vars

\* C35: in every state, the states in which tasks are suspended in on_load or
\* on_unload of load_plugin, unload_plugin and unload_all_plugins included,
\* loaded_plugins and plugin_manifests have the same keys.
C35_SameKeys ==
    DictKeys(loaded_plugins) = DictKeys(plugin_manifests)

\* C35 witness: one task is suspended in the second on_unload of
\* unload_all_plugins, its first plugin already removed, while the other
\* task is suspended in on_load.
C35_Witness ==
    \E p, q \in RegTasks :
        /\ rpc[p] = "on_unload" /\ rloc[p].op = "unload_all"
        /\ Len(loaded_plugins) < Len(rloc[p].pre_plugins)
        /\ loaded_plugins # <<>>
        /\ rpc[q] = "on_load"

\* C39: a health_check_all ends without a fault and with a status map, also
\* when a load_plugin or an unload_plugin of another task completed while
\* the scan was suspended in a health_check.
C39_ScanSurvivesRegistryChange ==
    rres.op = "health" => rres.error = "none"

\* C40: when execute_plugin, get_all_plugin_contexts or health_check_all
\* ends, with a result or with a fault, loaded_plugins and plugin_manifests
\* hold the names, instances and manifests, in the order, they held when the
\* call began.
C40_ReadersLeaveRegistry ==
    rres.op \in {"dispatch", "contexts", "health"} =>
        /\ loaded_plugins = rres.pre_plugins
        /\ plugin_manifests = rres.pre_manifests

\* C40 witness: a dispatch whose execute raised ended with a fault while two
\* plugins are registered.
C40_Witness ==
    /\ rres.op = "dispatch" /\ rres.error = "PluginExecutionError"
    /\ rres.raised # "none"
    /\ Len(loaded_plugins) = 2
    /\ DictHas(loaded_plugins, rres.name)

\* C36: whenever the list holds a message its key has an expiry deadline,
\* also between the rpush and the expire of add_message and of
\* prune_old_messages.
C36_NonEmptyLogHasTTL ==
    messages_list # <<>> => key_ttl # NoTTL

\* C37: when add_message ends with a fault, the message it built is not in
\* the list.
C37_FailedAppendLeavesLog ==
    (cres.op = "add" /\ cres.outcome # "ok") =>
        cres.msg.content \notin Contents(messages_list)

\* C38: when prune_old_messages(before) ends with a fault, every message of
\* the log it read whose timestamp is not earlier than `before` is still in
\* the list.
C38_FailedPruneKeepsRetained ==
    (cres.op = "prune" /\ cres.outcome # "ok") =>
        \A i \in 1 .. Len(cres.log) :
            cres.log[i].timestamp >= cres.before =>
                cres.log[i].content \in Contents(messages_list)

====
